---- MODULE Spec2Model ----
(***************************************************************************)
(* State-machine model of the zk-faceid API (src/zk-faceid-api/main_day4.py):*)
(* the metrics registry, the proof generation engine with its external     *)
(* prover, temporary interchange files and simulated fallback, and the     *)
(* HTTP handlers that call it.                                             *)
(*                                                                         *)
(* Modelling conventions                                                   *)
(*  - sha256 is a free (collision-free) symbolic function.                 *)
(*  - user ids and wallet addresses are well-formed (UTF-8 encodable)      *)
(*    strings, which is what the form / JSON layer delivers.               *)
(*  - the environment (artifact files, prover behaviour, temp-file and     *)
(*    unlink failures, unparsable outputs) is nondeterministic.            *)
(*  - handlers are `async def` without await around the proof call, so a   *)
(*    generate_proof activation runs to completion before the next request *)
(*    is handled.                                                          *)
(*                                                                         *)
(* Spec is the API with its proof engine; FairSpec adds the scheduling of  *)
(* a started proof call; ComponentSpec calls the liveness detector, the    *)
(* landmark encoders, the circuit health monitor and the risk scorer on    *)
(* their own over grids of inputs.                                         *)
(***************************************************************************)
EXTENDS Integers, Sequences, FiniteSets, TLC

VARIABLES
    metrics,        \* SystemMetrics: the proof counters
    env,            \* filesystem / toolchain: circuit artifacts, snarkjs
    temp_files,     \* temp files of the current generate_proof call that exist
    call,           \* activation record of generate_proof
    req,            \* the request being handled
    response,       \* the last response sent
    served          \* number of requests accepted so far

vars == <<metrics, env, temp_files, call, req, response, served>>

-----------------------------------------------------------------------------
(* Bounds of the model *)

MaxRequests == 1
MaxBatch == 2

\* seconds of prover run time that one clock step stands for
TickSeconds == 10

(* Program constants *)

EMBED_MIN == 128
EMBED_MAX == 256
TIMEOUT_HIGH == 60
TIMEOUT_NORMAL == 30
BATCH_LIMIT == 10

-----------------------------------------------------------------------------
(* Pure helpers *)

Min(a, b) == IF a < b THEN a ELSE b

Take(s, n) == SubSeq(s, 1, Min(n, Len(s)))

Sha256(x) == <<"sha256", x>>

\* the bytes of a text: str.encode()
Utf8(s) == <<"utf8", s>>

\* hexdigest()[:16]
Hex16(h) == <<"hex16", h>>

\* int(hexdigest()[:8], 16) % (2**31)
Int31(h) == <<"int31", h>>

\* the list object after hash_embedding ran on it: extend() pads in place,
\* the truncation to 256 only rebinds the local name
PaddedInPlace(embedding) ==
    IF Len(embedding) < EMBED_MIN
    THEN embedding \o [i \in 1..(EMBED_MIN - Len(embedding)) |-> 0]
    ELSE embedding

hash_embedding(embedding) ==
    LET padded == PaddedInPlace(embedding)
        cut    == IF Len(padded) > EMBED_MAX THEN Take(padded, EMBED_MAX) ELSE padded
    IN  IF \A i \in 1..Len(cut) : cut[i] \in 0..255
        THEN Sha256(cut)
        ELSE Sha256("fallback")

circuit_input(embedding, user_id) ==
    LET embedding_hash == hash_embedding(embedding)
    IN  [ nullifierHash     |-> Int31(Sha256(embedding_hash)),
          signalHash        |-> Int31(Sha256(Take(PaddedInPlace(embedding), 8))),
          externalNullifier |-> Int31(Sha256(Utf8(user_id))),
          identityNullifier |-> <<"byte", 0, Hex16(embedding_hash)>>,
          identityTrapdoor  |-> <<"byte", 1, Hex16(embedding_hash)>>,
          pathElements      |-> <<11111, 22222, 33333, 44444>>,
          pathIndices       |-> <<0, 1, 0, 1>> ]

\* variant: the increment of total_proofs is written from a stale read
update_metrics_LostIncrement(m, success) ==
    [ m EXCEPT !.total_proofs = IF @ = 0 THEN 1 ELSE @,
               !.successful_proofs = IF success THEN @ + 1 ELSE @,
               !.failed_proofs = IF success THEN @ ELSE @ + 1,
               !.update_calls = @ + 1 ]

\* update_calls is history, not a field of SystemMetrics: it counts the calls
\* of update_metrics that have returned
update_metrics(m, success) ==
    [ m EXCEPT !.total_proofs = @ + 1,
               !.successful_proofs = IF success THEN @ + 1 ELSE @,
               !.failed_proofs = IF success THEN @ ELSE @ + 1,
               !.update_calls = @ + 1 ]

SimulatedPayload == "placeholder_groth16_proof"

_generate_enhanced_simulated_proof(embedding_hash, user_id, error) ==
    [ success         |-> TRUE,
      proof           |-> SimulatedPayload,
      publicSignals   |-> <<Hex16(embedding_hash)>>,
      embedding_hash  |-> embedding_hash,
      nullifier       |-> Int31(Sha256(Utf8(user_id))),
      protocol        |-> "groth16_simulated",
      circuit         |-> "semaphore_simulated",
      proof_type      |-> "simulated",
      fallback_reason |-> error,
      circuit_health  |-> "degraded" ]

RealProof(embedding, user_id, priority, proof_data, public_signals) ==
    [ success        |-> TRUE,
      proof          |-> proof_data,
      publicSignals  |-> public_signals,
      embedding_hash |-> hash_embedding(embedding),
      nullifier      |-> circuit_input(embedding, user_id).nullifierHash,
      priority       |-> priority,
      protocol       |-> "groth16",
      circuit        |-> "semaphore",
      proof_type     |-> "real",
      circuit_health |-> "healthy" ]

\* variant: every priority gets the long budget
timeout_value_AlwaysHigh(priority) == TIMEOUT_HIGH

timeout_value(priority) == IF priority = "high" THEN TIMEOUT_HIGH ELSE TIMEOUT_NORMAL

\* variant: the zkey guard is missing
ArtifactsPresent_WasmOnly(e) == e.wasm_exists

\* the two os.path.exists guards in front of the prover
ArtifactsPresent(e) == e.wasm_exists /\ e.zkey_exists

\* variant: only the timeout is handled, anything else propagates
ExceptClause_TimeoutOnly(exc) ==
    IF exc = "TimeoutExpired" THEN "timeout" ELSE "none"

\* which except clause of generate_proof takes an exception
ExceptClause(exc) ==
    IF exc = "TimeoutExpired" THEN "timeout" ELSE "generic"

\* str(e) of the exceptions the environment can cause
StrOf(exc) ==
    CASE exc = "OSError"         -> "[Errno 28] No space left on device"
      [] exc = "JSONDecodeError" -> "Expecting value: line 1 column 1 (char 0)"
      [] OTHER                   -> exc

TempNames == <<"input", "proof", "public">>

-----------------------------------------------------------------------------
(* Input domains *)

Embeddings ==
    { <<7, 9>>, <<300>>, [i \in 1..EMBED_MIN |-> 1], [i \in 1..(EMBED_MAX + 1) |-> 2] }

UserIds == {"alice", "bob"}

Priorities == {"low", "normal", "high"}

Stderrs == {"", "snarkjs: witness generation failed"}

Envs == [wasm_exists : BOOLEAN, zkey_exists : BOOLEAN, snarkjs_available : BOOLEAN]

NoCall == [pc |-> "none"]

NoResponse == [status |-> 0]

NoResult == [proof_type |-> "none"]

NewCall(embedding, user_id, priority) ==
    [ pc            |-> "entry",
      embedding     |-> embedding,
      user_id       |-> user_id,
      priority      |-> priority,
      made          |-> 0,
      elapsed       |-> 0,
      exc           |-> "none",
      ret           |-> NoResult,
      result        |-> NoResult,
      \* observation only
      prover_starts |-> 0,
      prover_rc     |-> -1,
      parsed        |-> 0,
      fallbacks     |-> 0,
      total0        |-> metrics.total_proofs,
      ok0           |-> metrics.successful_proofs,
      failed0       |-> metrics.failed_proofs,
      created       |-> {},
      stages        |-> <<"NotStarted">> ]

-----------------------------------------------------------------------------
(* generate_proof, one step per statement group; call.pc is the position *)

\* variant: a failure inside the inner try goes back to the artifact check
\* and the prover is tried again
Raise_Retry(c, exc, inner) ==
    IF inner
    THEN [ c EXCEPT !.pc = "check" ]
    ELSE [ c EXCEPT !.exc = exc, !.pc = "except" ]

\* an exception raised at the current position: inside the inner try it passes
\* through the finally block first, outside it goes straight to the handlers
Raise(c, exc, inner) ==
    [ c EXCEPT !.exc = exc, !.pc = IF inner THEN "finally" ELSE "except" ]

\* lines 375-387: hashing and circuit inputs (total on well-formed inputs)
GP_Prepare ==
    /\ call.pc = "entry"
    /\ call' = [call EXCEPT !.pc = "mktemp"]
    /\ UNCHANGED <<metrics, env, temp_files, req, response, served>>

\* lines 389-397: the three NamedTemporaryFile(delete=False) blocks
GP_CreateTemp ==
    /\ call.pc = "mktemp"
    /\ LET name == TempNames[call.made + 1]
       IN \E outcome \in {"ok", "create_fails", "write_fails"} :
            /\ outcome = "write_fails" => name = "input"
            /\ temp_files' = IF outcome = "create_fails"
                             THEN temp_files ELSE temp_files \cup {name}
            /\ call' =
                 IF outcome = "ok"
                 THEN [call EXCEPT !.made = @ + 1,
                                   !.created = @ \cup {name},
                                   !.pc = IF call.made + 1 = Len(TempNames)
                                          THEN "check" ELSE "mktemp"]
                 ELSE [Raise(call, "OSError", FALSE) EXCEPT
                          !.created = IF outcome = "write_fails"
                                      THEN @ \cup {name} ELSE @]
    /\ UNCHANGED <<metrics, env, req, response, served>>

\* lines 400-406: missing artifact -> simulated proof, no metrics update
GP_ArtifactCheck ==
    /\ call.pc = "check"
    /\ IF ArtifactsPresent(env)
       THEN call' = [call EXCEPT !.pc = "run",
                                 !.elapsed = 0,
                                 !.prover_starts = @ + 1,
                                 !.stages = @ \o <<"ArtifactCheck", "RealAttempt">>]
       ELSE call' = [call EXCEPT
                        !.pc = "finally",
                        !.ret = _generate_enhanced_simulated_proof(
                                    hash_embedding(call.embedding), call.user_id,
                                    "Circuit unavailable"),
                        !.fallbacks = @ + 1,
                        !.stages = @ \o <<"ArtifactCheck", "SkipToFallback", "Fallback">>]
    /\ UNCHANGED <<metrics, env, temp_files, req, response, served>>

\* the prover is running and the clock advances
GP_Tick ==
    /\ call.pc = "run"
    /\ call.elapsed < timeout_value(call.priority)
    /\ call' = [call EXCEPT
                   !.elapsed = Min(@ + TickSeconds, timeout_value(call.priority))]
    /\ UNCHANGED <<metrics, env, temp_files, req, response, served>>

\* lines 421-429, 457-459: subprocess.run returns before the timeout
GP_ProverExit ==
    /\ call.pc = "run"
    /\ call.elapsed < timeout_value(call.priority)
    /\ \E rc \in {0, 1}, stderr \in Stderrs :
         call' =
           IF rc = 0
           THEN [call EXCEPT !.pc = "parse", !.prover_rc = rc]
           ELSE [call EXCEPT
                    !.pc = "finally",
                    !.prover_rc = rc,
                    !.ret = _generate_enhanced_simulated_proof(
                                hash_embedding(call.embedding), call.user_id, stderr),
                    !.fallbacks = @ + 1,
                    !.stages = @ \o <<"Fallback">>]
    /\ UNCHANGED <<metrics, env, temp_files, req, response, served>>

\* subprocess.run(timeout=timeout_value) kills the prover and raises
GP_TimeoutExpired ==
    /\ call.pc = "run"
    /\ call.elapsed = timeout_value(call.priority)
    /\ call' = Raise(call, "TimeoutExpired", TRUE)
    /\ UNCHANGED <<metrics, env, temp_files, req, response, served>>

\* lines 429-456: read the two output files, record the success
GP_ParseOutputs ==
    /\ call.pc = "parse"
    /\ \E proof_ok \in BOOLEAN, public_ok \in BOOLEAN :
         IF proof_ok /\ public_ok
         THEN /\ metrics' = update_metrics(metrics, TRUE)
              /\ call' = [call EXCEPT
                            !.pc = "finally",
                            !.parsed = 2,
                            !.ret = RealProof(call.embedding, call.user_id,
                                              call.priority, "proof_data",
                                              "public_signals"),
                            !.stages = @ \o <<"Success">>]
         ELSE /\ metrics' = metrics
              /\ call' = [Raise(call, "JSONDecodeError", TRUE) EXCEPT
                            !.parsed = IF proof_ok THEN 1 ELSE 0]
    /\ UNCHANGED <<env, temp_files, req, response, served>>

\* lines 461-467: unlink what exists; a failing unlink is only logged
GP_Cleanup ==
    /\ call.pc = "finally"
    /\ \E unlink_ok \in BOOLEAN :
         temp_files' = IF unlink_ok THEN {} ELSE temp_files
    /\ call' = IF call.exc = "none"
               THEN [call EXCEPT !.pc = "returned",
                                 !.result = call.ret,
                                 !.stages = @ \o <<"Done">>]
               ELSE [call EXCEPT !.pc = "except"]
    /\ UNCHANGED <<metrics, env, req, response, served>>

\* lines 469-478: the two except clauses of the outer try
GP_Except ==
    /\ call.pc = "except"
    /\ LET clause == ExceptClause(call.exc)
           reason == IF clause = "timeout" THEN "Timeout" ELSE StrOf(call.exc)
       IN IF clause \in {"timeout", "generic"}
          THEN /\ metrics' = update_metrics(metrics, FALSE)
               /\ call' = [call EXCEPT
                             !.pc = "returned",
                             !.result = _generate_enhanced_simulated_proof(
                                           hash_embedding(call.embedding),
                                           call.user_id, reason),
                             !.fallbacks = @ + 1,
                             !.stages = @ \o <<"Fallback", "Done">>]
          ELSE /\ metrics' = metrics
               /\ call' = [call EXCEPT !.pc = "raised"]
    /\ UNCHANGED <<env, temp_files, req, response, served>>

GP_Step ==
    \/ GP_Prepare
    \/ GP_CreateTemp
    \/ GP_ArtifactCheck
    \/ GP_Tick
    \/ GP_ProverExit
    \/ GP_TimeoutExpired
    \/ GP_ParseOutputs
    \/ GP_Cleanup
    \/ GP_Except

-----------------------------------------------------------------------------
(* Circuit health monitor *)

check_circuit_health(e) ==
    [ wasm_exists       |-> e.wasm_exists,
      zkey_exists       |-> e.zkey_exists,
      snarkjs_available |-> e.snarkjs_available,
      overall_health    |->
          IF e.wasm_exists /\ e.zkey_exists /\ e.snarkjs_available
          THEN "healthy" ELSE "degraded" ]

-----------------------------------------------------------------------------
(* Liveness detector: measurements are scaled integers                      *)
(*   ear, face_area, mouth_ar in thousandths; the score in tenths           *)

EAR_THRESHOLD == 200
FACE_SIZE_THRESHOLD == 100
SHARPNESS_MIN == 50
BRIGHTNESS_LOW == 50
BRIGHTNESS_HIGH == 200
MOUTH_AR_MAX == 700
VARIANCE_MIN == 10
LIVE_SCORE == 6

liveness_score(image, advanced_mode) ==
      (IF image.ear > EAR_THRESHOLD THEN 4 ELSE 0)
    + (IF image.face_area > FACE_SIZE_THRESHOLD THEN 3 ELSE 0)
    + (IF image.sharpness > SHARPNESS_MIN THEN 2 ELSE 0)
    + (IF BRIGHTNESS_LOW < image.brightness /\ image.brightness < BRIGHTNESS_HIGH
       THEN 1 ELSE 0)
    + (IF advanced_mode /\ image.mouth_ar < MOUTH_AR_MAX THEN 1 ELSE 0)
    + (IF advanced_mode /\ image.variance > VARIANCE_MIN THEN 1 ELSE 0)

\* the 2-coordinate landmark list the face mesh returns for an image
Landmarks(image) ==
    [ i \in 1..image.n_landmarks |->
        IF image.flat THEN <<5, 5>> ELSE <<(i * 7) % 640, (i * 13) % 480>> ]

\* landmarks[::2][:64], flattened, cut to 256 values
SampledValues(landmarks) ==
    LET n_sel    == Min(64, (Len(landmarks) + 1) \div 2)
        selected == [k \in 1..n_sel |-> landmarks[2 * k - 1]]
        flat     == [j \in 1..(2 * n_sel) |-> selected[(j + 1) \div 2][2 - (j % 2)]]
    IN  Take(flat, 256)

Range(s) == { s[i] : i \in 1..Len(s) }

SeqMax(s) == CHOOSE m \in Range(s) : \A x \in Range(s) : m >= x

SeqMin(s) == CHOOSE m \in Range(s) : \A x \in Range(s) : m <= x

embedding_256(landmarks) ==
    LET flattened == SampledValues(landmarks)
        hi == SeqMax(flattened)
        lo == SeqMin(flattened)
    IN  IF hi > lo
        THEN [j \in 1..Len(flattened) |-> ((flattened[j] - lo) * 255) \div (hi - lo)]
        ELSE [j \in 1..256 |-> 128]

detect_face_and_liveness(image, advanced_mode) ==
    IF ~image.face
    THEN [ face_detected |-> FALSE, liveness_detected |-> FALSE, confidence |-> 0 ]
    ELSE LET score == liveness_score(image, advanced_mode)
         IN [ face_detected     |-> TRUE,
              liveness_detected |-> score >= LIVE_SCORE,
              confidence        |-> Min(score, 10),
              eye_aspect_ratio  |-> image.ear,
              face_area         |-> image.face_area,
              sharpness         |-> image.sharpness,
              brightness        |-> image.brightness ]

\* variant: every comparison strict
_identify_failed_liveness_checks_Strict(d) ==
    { c \in {"Eyes appear closed or partially closed", "Face too small or distant",
             "Image not sharp enough", "Poor lighting conditions"} :
        \/ c = "Eyes appear closed or partially closed" /\ d.eye_aspect_ratio < 200
        \/ c = "Face too small or distant" /\ d.face_area < 100
        \/ c = "Image not sharp enough" /\ d.sharpness < 50
        \/ c = "Poor lighting conditions" /\ (d.brightness < 50 \/ d.brightness > 200) }

_identify_failed_liveness_checks(d) ==
    { c \in {"Eyes appear closed or partially closed", "Face too small or distant",
             "Image not sharp enough", "Poor lighting conditions"} :
        \/ c = "Eyes appear closed or partially closed" /\ d.eye_aspect_ratio <= 200
        \/ c = "Face too small or distant" /\ d.face_area <= 100
        \/ c = "Image not sharp enough" /\ d.sharpness < 50
        \/ c = "Poor lighting conditions" /\ (d.brightness < 50 \/ d.brightness > 200) }

-----------------------------------------------------------------------------
(* Request inputs *)

GoodFace == [ data |-> "decodable", face |-> TRUE, ear |-> 300, face_area |-> 250,
              sharpness |-> 120, brightness |-> 128, mouth_ar |-> 300,
              variance |-> 900, flat |-> FALSE, n_landmarks |-> 478 ]

Images ==
    { [GoodFace EXCEPT !.data = "empty"],
      [GoodFace EXCEPT !.data = "garbage"],
      [GoodFace EXCEPT !.face = FALSE],
      [GoodFace EXCEPT !.ear = 150, !.sharpness = 20],
      GoodFace,
      [GoodFace EXCEPT !.flat = TRUE, !.n_landmarks = 468] }

\* detection_result["embedding_256"] of each request image
FaceEmbedding == [ image \in Images |-> embedding_256(Landmarks(image)) ]

Names == <<"u0", "u1", "u2", "u3", "u4", "u5", "u6", "u7", "u8", "u9", "u10", "u11">>

Wallets == <<"w0", "w1", "w2", "w3", "w4", "w5", "w6", "w7", "w8", "w9", "w10", "w11">>

BatchLens == (0..MaxBatch) \cup {BATCH_LIMIT + 1}

\* a batch request with arrays of the given lengths; items differ per index
BatchRequest(ne, nu, nw) ==
    [ embeddings       |-> [i \in 1..ne |-> <<i, 2 * i>>],
      user_ids         |-> [i \in 1..nu |-> Names[i]],
      wallet_addresses |-> [i \in 1..nw |-> Wallets[i]] ]

Idle == [handler |-> "none", pc |-> "idle"]

CanAccept == req.pc = "idle" /\ served < MaxRequests

\* a request starts: what is kept about it while it is handled
Begin(handler, input) ==
    [ handler  |-> handler,
      pc       |-> "calling",
      input    |-> input,
      i        |-> 0,
      results  |-> <<>>,
      \* observation only
      gp_calls |-> 0,
      prover_starts |-> 0,
      metrics0 |-> metrics ]

HTTPException(status_code, detail) ==
    [ status |-> status_code, detail |-> detail ]

\* str(e) of a starlette HTTPException
StrHTTP(e) == <<e.status, e.detail>>

-----------------------------------------------------------------------------
(* POST /prove_face *)

\* lines 955-959: the handler's except clause takes every Exception, the
\* HTTPException raised by its own validation included
prove_face_except(m, e) ==
    [ metrics  |-> update_metrics(m, FALSE),
      response |-> HTTPException(500, <<"Internal server error", e>>) ]

\* variant: the gate looks at face detection only
liveness_gate_FaceOnly(d) ==
    IF ~d.face_detected THEN "no_face" ELSE "pass"

\* lines 878 and 893: the two early returns before the proof engine
liveness_gate(d) ==
    IF ~d.face_detected THEN "no_face"
    ELSE IF ~d.liveness_detected THEN "not_live"
    ELSE "pass"

\* lines 885-889
NoFaceRecommendations ==
    << "Ensure good lighting", "Position face in center of camera",
       "Remove obstructions (glasses, masks, etc.)" >>

\* lines 901-906
LivenessRecommendations ==
    << "Look directly at camera with eyes open", "Ensure natural facial expression",
       "Improve lighting conditions", "Hold device steady" >>

ProveFace ==
    /\ CanAccept
    /\ \E image \in Images, user_id \in {"alice"}, advanced_mode \in BOOLEAN,
          priority \in Priorities :
         LET r == Begin("prove_face",
                        [ image |-> image, user_id |-> user_id,
                          wallet_address |-> Wallets[1],
                          advanced_mode |-> advanced_mode, priority |-> priority ])
             d == detect_face_and_liveness(image, advanced_mode)
             bad == IF image.data = "empty"
                    THEN StrHTTP(HTTPException(400, "Empty image file"))
                    ELSE StrHTTP(HTTPException(400, "Invalid image format"))
         IN /\ served' = served + 1
            /\ temp_files' = {}
            /\ IF image.data # "decodable"
               THEN /\ metrics' = prove_face_except(metrics, bad).metrics
                    /\ response' = prove_face_except(metrics, bad).response
                    /\ req' = [r EXCEPT !.pc = "done"]
                    /\ call' = NoCall
               ELSE IF liveness_gate(d) = "no_face"
               THEN /\ metrics' = metrics
                    /\ response' = [ status |-> 400, error |-> "No face detected",
                                     success |-> FALSE,
                                     recommendations |-> NoFaceRecommendations ]
                    /\ req' = [r EXCEPT !.pc = "done"]
                    /\ call' = NoCall
               ELSE IF liveness_gate(d) = "not_live"
               THEN /\ metrics' = metrics
                    /\ response' = [ status |-> 400,
                                     error |-> "Liveness validation failed",
                                     success |-> FALSE,
                                     liveness_score |-> d.confidence,
                                     failed_checks |->
                                         _identify_failed_liveness_checks(d),
                                     recommendations |-> LivenessRecommendations ]
                    /\ req' = [r EXCEPT !.pc = "done"]
                    /\ call' = NoCall
               ELSE /\ metrics' = metrics
                    /\ response' = NoResponse
                    /\ req' = [r EXCEPT !.gp_calls = 1]
                    /\ call' = NewCall(FaceEmbedding[image], user_id, priority)
    /\ UNCHANGED env

ProveFaceFinish ==
    /\ req.pc = "calling" /\ req.handler = "prove_face"
    /\ call.pc \in {"returned", "raised"}
    /\ IF call.pc = "returned"
       THEN /\ metrics' = metrics
            /\ response' = [ status |-> 200, success |-> TRUE,
                             liveness_detected |-> TRUE,
                             embedding_hash |-> call.result.embedding_hash,
                             nullifier |-> call.result.nullifier,
                             proof |-> call.result.proof,
                             publicSignals |-> call.result.publicSignals,
                             protocol |-> call.result.protocol,
                             circuit |-> call.result.circuit,
                             proof_type |-> call.result.proof_type,
                             user_id |-> req.input.user_id,
                             wallet_address |-> req.input.wallet_address ]
       ELSE /\ metrics' = prove_face_except(metrics, call.exc).metrics
            /\ response' = prove_face_except(metrics, call.exc).response
    /\ req' = [req EXCEPT !.pc = "done", !.prover_starts = @ + call.prover_starts]
    /\ UNCHANGED <<env, temp_files, call, served>>

-----------------------------------------------------------------------------
(* POST /generate-proof *)

GenerateProofEndpoint ==
    /\ CanAccept
    /\ \E embedding \in Embeddings, wallet_address \in UserIds,
          advanced_validation \in BOOLEAN :
         /\ req' = [ Begin("generate_proof",
                           [ embedding |-> embedding,
                             wallet_address |-> wallet_address,
                             advanced_validation |-> advanced_validation ])
                     EXCEPT !.gp_calls = 1 ]
         /\ call' = NewCall(IF Len(embedding) > EMBED_MAX
                            THEN Take(embedding, EMBED_MAX) ELSE embedding,
                            wallet_address,
                            IF advanced_validation THEN "high" ELSE "normal")
    /\ served' = served + 1
    /\ temp_files' = {}
    /\ response' = NoResponse
    /\ UNCHANGED <<metrics, env>>

GenerateProofFinish ==
    /\ req.pc = "calling" /\ req.handler = "generate_proof"
    /\ call.pc \in {"returned", "raised"}
    /\ response' =
         IF call.pc = "returned"
         THEN [ status |-> 200, result |-> "success",
                proof |-> call.result.proof,
                public_signals |-> call.result.publicSignals,
                embedding_hash |-> call.result.embedding_hash,
                nullifier |-> call.result.nullifier,
                protocol |-> call.result.protocol,
                proof_type |-> call.result.proof_type ]
         ELSE HTTPException(500, call.exc)
    /\ req' = [req EXCEPT !.pc = "done", !.prover_starts = @ + call.prover_starts]
    /\ UNCHANGED <<metrics, env, temp_files, call, served>>

-----------------------------------------------------------------------------
(* POST /batch_prove *)

\* variant: the batch cap is not enforced
batch_validation_NoCap(request) ==
    IF \/ Len(request.embeddings) # Len(request.user_ids)
       \/ Len(request.embeddings) # Len(request.wallet_addresses)
    THEN "Mismatched array lengths"
    ELSE "ok"

\* lines 1109-1113: the two validations, in order; "ok" when both pass
batch_validation(request) ==
    IF \/ Len(request.embeddings) # Len(request.user_ids)
       \/ Len(request.embeddings) # Len(request.wallet_addresses)
    THEN "Mismatched array lengths"
    ELSE IF Len(request.embeddings) > BATCH_LIMIT
    THEN "Batch size limited to 10 requests"
    ELSE "ok"

\* lines 1136-1138: every Exception, the 400 above included, leaves as a 500
batch_except(e) == HTTPException(500, e)

\* variant: every item gets the first wallet address
batch_item_FirstWallet(request, i, result) ==
    [ result |-> result,
      wallet_address |-> request.wallet_addresses[1],
      batch_index |-> i ]

\* lines 1120-1122: what the loop stores for item i (0-based)
batch_item(request, i, result) ==
    [ result |-> result,
      wallet_address |-> request.wallet_addresses[i + 1],
      batch_index |-> i ]

batch_response(results) ==
    [ status |-> 200, success |-> TRUE, batch_size |-> Len(results),
      results |-> results ]

BatchProve ==
    /\ CanAccept
    /\ \E ne \in BatchLens, nu \in BatchLens, nw \in BatchLens :
         LET request == BatchRequest(ne, nu, nw)
             r == Begin("batch_prove", request)
             v == batch_validation(request)
         IN IF v # "ok"
            THEN /\ response' = batch_except(StrHTTP(HTTPException(400, v)))
                 /\ req' = [r EXCEPT !.pc = "done"]
                 /\ call' = NoCall
            ELSE IF ne = 0
            THEN /\ response' = batch_response(<<>>)
                 /\ req' = [r EXCEPT !.pc = "done"]
                 /\ call' = NoCall
            ELSE /\ response' = NoResponse
                 /\ req' = [r EXCEPT !.gp_calls = 1]
                 /\ call' = NewCall(request.embeddings[1], request.user_ids[1],
                                    "normal")
    /\ served' = served + 1
    /\ temp_files' = {}
    /\ UNCHANGED <<metrics, env>>

\* one iteration of the loop ends: store the item, go on or answer
BatchProveItem ==
    /\ req.pc = "calling" /\ req.handler = "batch_prove"
    /\ call.pc \in {"returned", "raised"}
    /\ IF call.pc = "raised"
       THEN /\ response' = batch_except(call.exc)
            /\ req' = [req EXCEPT !.pc = "done",
                                  !.prover_starts = @ + call.prover_starts]
            /\ UNCHANGED <<call, temp_files>>
       ELSE LET results == Append(req.results,
                                  batch_item(req.input, req.i, call.result))
                next == req.i + 1
            IN IF next < Len(req.input.embeddings)
               THEN /\ response' = response
                    /\ req' = [req EXCEPT !.results = results, !.i = next,
                                          !.gp_calls = @ + 1,
                                          !.prover_starts = @ + call.prover_starts]
                    /\ call' = NewCall(req.input.embeddings[next + 1],
                                       req.input.user_ids[next + 1], "normal")
                    /\ temp_files' = {}
               ELSE /\ response' = batch_response(results)
                    /\ req' = [req EXCEPT !.results = results, !.i = next,
                                          !.pc = "done",
                                          !.prover_starts = @ + call.prover_starts]
                    /\ UNCHANGED <<call, temp_files>>
    /\ UNCHANGED <<metrics, env, served>>

-----------------------------------------------------------------------------
(* The environment changes between requests *)

\* the response has been sent: the request's locals are gone
Close ==
    /\ req.pc = "done"
    /\ req' = Idle
    /\ call' = NoCall
    /\ response' = NoResponse
    /\ temp_files' = {}
    /\ UNCHANGED <<metrics, env, served>>

EnvChange ==
    /\ req.pc = "idle"
    /\ \E e \in Envs : e # env /\ env' = e
    /\ UNCHANGED <<metrics, temp_files, call, req, response, served>>

-----------------------------------------------------------------------------

Init ==
    /\ env \in Envs
    /\ metrics = [ total_proofs |-> 0, successful_proofs |-> 0, failed_proofs |-> 0,
                   circuit_health |-> check_circuit_health(env).overall_health,
                   risk_assessments |-> 0, financial_requests |-> 0,
                   update_calls |-> 0 ]
    /\ temp_files = {}
    /\ call = NoCall
    /\ req = Idle
    /\ response = NoResponse
    /\ served = 0

Next ==
    \/ GP_Prepare
    \/ GP_CreateTemp
    \/ GP_ArtifactCheck
    \/ GP_Tick
    \/ GP_ProverExit
    \/ GP_TimeoutExpired
    \/ GP_ParseOutputs
    \/ GP_Cleanup
    \/ GP_Except
    \/ ProveFace
    \/ ProveFaceFinish
    \/ GenerateProofEndpoint
    \/ GenerateProofFinish
    \/ BatchProve
    \/ BatchProveItem
    \/ Close
    \/ EnvChange

Spec == Init /\ [][Next]_vars

\* the scheduler runs a started call on; nothing obliges the prover to exit
FairSpec ==
    /\ Spec
    /\ WF_vars(GP_Prepare)
    /\ WF_vars(GP_CreateTemp)
    /\ WF_vars(GP_ArtifactCheck)
    /\ WF_vars(GP_Tick)
    /\ WF_vars(GP_TimeoutExpired)
    /\ WF_vars(GP_ParseOutputs)
    /\ WF_vars(GP_Cleanup)
    /\ WF_vars(GP_Except)

-----------------------------------------------------------------------------
(* The components called on their own: the liveness detector, the landmark   *)
(* encoders, the circuit health monitor and the risk scorer.  req holds the  *)
(* call and its input, response what it returned.                            *)

\* captures as the detector measures them, on and around every threshold
Captures ==
    { [GoodFace EXCEPT !.ear = ear, !.face_area = face_area,
                       !.sharpness = sharpness, !.brightness = brightness,
                       !.mouth_ar = mouth_ar, !.variance = variance] :
        ear \in {150, 200, 300}, face_area \in {50, 100, 250},
        sharpness \in {20, 50, 120}, brightness \in {30, 50, 128, 200, 230},
        mouth_ar \in {300, 700}, variance \in {10, 900} }
    \cup { [GoodFace EXCEPT !.face = FALSE] }

\* lines 876-908 without the HTTP framing: the verdict, and for a rejected
\* face the itemized failed checks
Detect ==
    /\ req.pc = "idle"
    /\ \E image \in Captures, advanced_mode \in BOOLEAN :
         LET d == detect_face_and_liveness(image, advanced_mode)
         IN /\ req' = [ handler |-> "detect_face_and_liveness", pc |-> "done",
                        input |-> [ image |-> image,
                                    advanced_mode |-> advanced_mode ] ]
            /\ response' =
                  [ detection |-> d,
                    gate |-> liveness_gate(d),
                    failed_checks |->
                        IF d.face_detected
                        THEN _identify_failed_liveness_checks(d) ELSE {} ]
    /\ UNCHANGED <<metrics, env, temp_files, call, served>>

NoPrevious == [ input |-> "none" ]

\* what a repeated call remembers of the call right before it
PreviousOf(handler) ==
    IF req.pc = "done" /\ req.handler = handler
    THEN [ input |-> req.input, output |-> response ]
    ELSE NoPrevious

\* a component is called when nothing runs, or once more right after itself
Callable(handler) ==
    req.pc = "idle" \/ (req.pc = "done" /\ req.handler = handler)

\* the landmark sets the face mesh delivers: 468 points, 478 with the irises
LandmarkCounts == {468, 478}

\* main_day4.py lines 240-249 (main_day3.py lines 286-296): the 256-element
\* encoder of the liveness detector, followed by the hash of its output
Encode256 ==
    /\ Callable("embedding_256")
    /\ \E n \in LandmarkCounts, flat \in BOOLEAN :
         LET landmarks == Landmarks([GoodFace EXCEPT !.flat = flat,
                                                     !.n_landmarks = n])
             embedding == embedding_256(landmarks)
         IN /\ req' = [ handler |-> "embedding_256", pc |-> "done",
                        input |-> [ n_landmarks |-> n, flat |-> flat ],
                        previous |-> PreviousOf("embedding_256") ]
            /\ response' = [ embedding |-> embedding,
                             embedding_hash |-> hash_embedding(embedding) ]
    /\ UNCHANGED <<metrics, env, temp_files, call, served>>

\* face_embedding_capture.py: 3 + 3 + 3 + 3 statistics and 16 key landmarks
KeyIndices == { 10 * i : i \in 0..15 }
FEATURES_PER_POINT == 3
STAT_FEATURES == 12
EMBED_128 == 128

\* what np.random.normal(0, 0.1) gives after tanh and the byte conversion:
\* bytes around 127; three of them stand for the draws
PaddingBytes == <<114, 127, 140>>

\* the state of numpy's global generator when the padding is drawn
RngStates == 0..2

\* lines 66-115: the deterministic features (a free function of the landmark
\* set), then random padding up to 128 values, then tanh
landmarks_to_128_embedding(face, n, rng) ==
    LET n_features == STAT_FEATURES
                      + FEATURES_PER_POINT * Cardinality({ i \in KeyIndices : i < n })
    IN  [ k \in 1..EMBED_128 |->
            IF k <= n_features
            THEN <<"tanh", <<"feature", k, face, n>>>>
            ELSE <<"tanh", <<"normal", PaddingBytes[((rng + k) % 3) + 1]>>>> ]

\* lines 117-137: (e + 1) / 2 * 255 as uint8, cut to 128
embedding_to_128_bytes(embedding) ==
    Take([ k \in 1..Len(embedding) |-> <<"uint8", embedding[k]>> ], EMBED_128)

Encode128 ==
    /\ Callable("landmarks_to_128_embedding")
    /\ \E face \in {"face_a", "face_b"}, n \in LandmarkCounts, rng \in RngStates :
         LET bytes == embedding_to_128_bytes(landmarks_to_128_embedding(face, n, rng))
         IN /\ req' = [ handler |-> "landmarks_to_128_embedding", pc |-> "done",
                        input |-> [ face |-> face, n_landmarks |-> n ],
                        previous |-> PreviousOf("landmarks_to_128_embedding") ]
            /\ response' = [ embedding |-> bytes,
                             embedding_hash |-> Sha256(bytes) ]
    /\ UNCHANGED <<metrics, env, temp_files, call, served>>

\* lines 347-350: an exception inside the try block (os.path.getsize on the
\* wasm artifact, gone since os.path.exists saw it) ends the check as "error"
health_error(e) ==
    [ wasm_exists       |-> e.wasm_exists,
      zkey_exists       |-> FALSE,
      snarkjs_available |-> FALSE,
      overall_health    |-> "error" ]

\* variant: a check that finds the cache already right resets it
health_cached_Reset(m, h) ==
    [ m EXCEPT !.circuit_health =
          IF @ = h.overall_health THEN "unknown" ELSE h.overall_health ]

\* lines 337 and 340: the classification is cached in the metrics registry
health_cached(m, h) ==
    [ m EXCEPT !.circuit_health = h.overall_health ]

\* GET /circuit-health, lines 835-844
CircuitHealth ==
    /\ Callable("circuit_health")
    /\ \E raised \in { r \in BOOLEAN : r => env.wasm_exists } :
         LET h == IF raised THEN health_error(env) ELSE check_circuit_health(env)
             after == IF raised THEN metrics ELSE health_cached(metrics, h)
         IN /\ metrics' = after
            /\ req' = [ handler |-> "circuit_health", pc |-> "done",
                        input |-> [ env |-> env, raised |-> raised ],
                        cached |-> after.circuit_health,
                        previous |->
                            IF req.pc = "done"
                            THEN [ input |-> req.input, output |-> response,
                                   cached |-> req.cached ]
                            ELSE NoPrevious ]
            /\ response' = [ status |-> 200, circuit_health |-> h ]
    /\ UNCHANGED <<env, temp_files, call, served>>

\* an artifact or the prover appears or disappears between two health calls
ArtifactsChange ==
    /\ req.pc = "done" /\ req.handler = "circuit_health"
    /\ \E e \in Envs : e # env /\ env' = e
    /\ UNCHANGED <<metrics, temp_files, call, req, response, served>>

-----------------------------------------------------------------------------
(* Risk scorer.  Amounts are in thousands of rupees; income_stability and    *)
(* expense_pattern_score are in hundredths; a ratio is a pair n / d.         *)

INCOME_CAP == 100
BALANCE_CAP == 50
FREQUENCY_CAP == 30
LOW_BALANCE == 10
LOW_FREQUENCY == 10
SCORE_BASE == 300
SCORE_SPAN == 600
\* the weights of lines 509-516, in hundredths
W_INCOME == 25
W_EXPENSES == 20
W_BALANCE == 20
W_FREQUENCY == 15
W_STABILITY == 10
W_PATTERN == 10
VERY_LOW_MIN == 750
LOW_MIN == 650
MEDIUM_MIN == 550
HIGH_MIN == 450
ERROR_SCORE == 500
\* a common multiple of the caps and of the hundredths
CAP_LCM == 3 * INCOME_CAP

Max(a, b) == IF a > b THEN a ELSE b

\* int(): truncation toward zero of n / d, d > 0
Trunc(n, d) == IF n >= 0 THEN n \div d ELSE -((-n) \div d)

\* variant: the division is made whatever the income
expense_ratio_Unguarded(p) ==
    [ n |-> p.monthly_expenses, d |-> p.monthly_income ]

\* line 616: expenses / income when income > 0, else 1.0
expense_ratio(p) ==
    IF p.monthly_income > 0
    THEN [ n |-> p.monthly_expenses, d |-> p.monthly_income ]
    ELSE [ n |-> 1, d |-> 1 ]

\* lines 691-700: the assessment returned when the computation raised
ErrorDefault ==
    [ final_score |-> ERROR_SCORE, risk_category |-> "MEDIUM",
      risk_factors |-> {"Data processing error"} ]

\* lines 634-643
risk_category(credit_score) ==
    IF credit_score >= VERY_LOW_MIN THEN "VERY_LOW"
    ELSE IF credit_score >= LOW_MIN THEN "LOW"
    ELSE IF credit_score >= MEDIUM_MIN THEN "MEDIUM"
    ELSE IF credit_score >= HIGH_MIN THEN "HIGH"
    ELSE "VERY_HIGH"

\* int(300 + weighted_score * 600) on binary floats: when the exact sum n / d is
\* a whole number the float sum may fall just short of it (short), and the
\* truncation then gives the whole number one nearer to zero
FloatTrunc(n, d, short) ==
    IF short /\ n % d = 0 /\ n # 0
    THEN IF n > 0 THEN Trunc(n, d) - 1 ELSE Trunc(n, d) + 1
    ELSE Trunc(n, d)

\* line 620: min(transaction_frequency / 30, 1.0) as a fraction
frequency_score(transaction_frequency) ==
    [ n |-> Min(transaction_frequency, FREQUENCY_CAP), d |-> FREQUENCY_CAP ]

\* lines 612-700.  Every component score is a numerator over the common
\* denominator den; a missing key or a division by zero ends in ErrorDefault
calculate_risk_score(p, short) ==
    LET r == expense_ratio(p)
    IN  IF ~p.complete \/ r.d = 0
        THEN ErrorDefault
        ELSE
        LET den == CAP_LCM * r.d
            \* min(x / y, 1) over den
            Capped(x, y) == IF x >= y THEN den ELSE (den \div y) * x
            income    == Capped(p.monthly_income, INCOME_CAP)
            expense   == IF r.n >= r.d THEN 0 ELSE (den \div r.d) * (r.d - r.n)
            balance   == IF p.average_balance > 0
                         THEN Capped(p.average_balance, BALANCE_CAP) ELSE 0
            frequency == (den \div frequency_score(p.transaction_frequency).d)
                         * frequency_score(p.transaction_frequency).n
            stability == IF p.income_stability >= 100 THEN 0
                         ELSE (den \div 100) * (100 - p.income_stability)
            pattern   == (den \div 100) * p.expense_pattern_score
            weighted  == W_INCOME * income + W_EXPENSES * expense
                         + W_BALANCE * balance + W_FREQUENCY * frequency
                         + W_STABILITY * stability + W_PATTERN * pattern
            credit_score ==
                FloatTrunc(SCORE_BASE * den + (SCORE_SPAN \div 100) * weighted,
                           den, short)
        IN  [ final_score   |-> credit_score,
              risk_category |-> risk_category(credit_score),
              expense_ratio |-> r,
              expense_score |-> [ n |-> expense, d |-> den ],
              risk_factors  |->
                  { f \in { "Irregular income pattern", "High expense to income ratio",
                            "Low average account balance", "Low transaction activity" } :
                      \/ f = "Irregular income pattern" /\ p.income_stability > 30
                      \/ f = "High expense to income ratio" /\ 10 * r.n > 8 * r.d
                      \/ f = "Low average account balance"
                            /\ p.average_balance < LOW_BALANCE
                      \/ f = "Low transaction activity"
                            /\ p.transaction_frequency < LOW_FREQUENCY } ]

RECURSIVE SumSeq(_)
SumSeq(xs) == IF xs = <<>> THEN 0 ELSE Head(xs) + SumSeq(Tail(xs))

Abs(x) == IF x < 0 THEN -x ELSE x

\* np.std(xs) / np.mean(xs) of positive amounts, in hundredths (rounded down)
CoeffVar(xs) ==
    LET n  == Len(xs)
        S  == SumSeq(xs)
        Q  == SumSeq([i \in 1..n |-> xs[i] * xs[i]])
        v  == n * Q - S * S
    IN  CHOOSE c \in 0..200 :
            /\ c * c * S * S <= 10000 * v
            /\ (c + 1) * (c + 1) * S * S > 10000 * v

\* lines 557-591
_analyze_transactions(transactions) ==
    LET credits == SelectSeq(transactions, LAMBDA a : a > 0)
        debits  == SelectSeq(transactions, LAMBDA a : a < 0)
        monthly_income   == SumSeq(credits)
        monthly_expenses == Abs(SumSeq(debits))
        debit_amounts    == [i \in 1..Len(debits) |-> Abs(debits[i])]
    IN  [ monthly_income        |-> monthly_income,
          monthly_expenses      |-> monthly_expenses,
          average_balance       |-> monthly_income - monthly_expenses,
          transaction_frequency |-> Len(transactions),
          income_stability      |-> IF Len(credits) > 1 THEN CoeffVar(credits) ELSE 50,
          expense_pattern_score |->
              IF Len(debits) > 1
              THEN Max(0, Min(100, 100 - CoeffVar(debit_amounts)))
              ELSE 50,
          debt_to_income_ratio  |->
              IF monthly_income > 0
              THEN [ n |-> monthly_expenses, d |-> monthly_income ]
              ELSE [ n |-> 1, d |-> 1 ],
          complete |-> TRUE ]

\* parsed transaction amounts: credits, debits and zero lines
Amounts == {-3, -1, 0, 2, 5}

Transactions ==
    UNION { [1..n -> Amounts] : n \in 1..3 }

\* financial profiles handed to the scorer directly, plain and adversarial,
\* and one that lacks a key
Profiles ==
    [ monthly_income        : {-1000, 0, 5, 85, 100, 1000},
      monthly_expenses      : {0, 5, 200},
      average_balance       : {-5, 0, 50, 100000},
      transaction_frequency : {0, 9, 30, 1000},
      income_stability      : {0, 50, 300},
      expense_pattern_score : {-500, 0, 100, 500},
      complete              : {TRUE} ]
    \cup
    [ monthly_income        : {0, 85},
      monthly_expenses      : {5},
      average_balance       : {50},
      transaction_frequency : {30},
      income_stability      : {0},
      expense_pattern_score : {100},
      complete              : {FALSE} ]

\* lines 974-977: the transactions are analyzed, then the profile is scored
AssessTransactions ==
    /\ req.pc = "idle"
    /\ \E transactions \in Transactions, short \in BOOLEAN :
         LET profile == _analyze_transactions(transactions)
         IN /\ req' = [ handler |-> "_analyze_transactions", pc |-> "done",
                        input |-> transactions ]
            /\ response' = [ financial_profile |-> profile,
                             risk_assessment |-> calculate_risk_score(profile, short) ]
    /\ UNCHANGED <<metrics, env, temp_files, call, served>>

CalculateRiskScore ==
    /\ req.pc = "idle"
    /\ \E profile \in Profiles, short \in BOOLEAN :
         /\ req' = [ handler |-> "calculate_risk_score", pc |-> "done",
                     input |-> profile ]
         /\ response' = [ financial_profile |-> profile,
                          risk_assessment |-> calculate_risk_score(profile, short) ]
    /\ UNCHANGED <<metrics, env, temp_files, call, served>>

ComponentNext ==
    \/ Detect
    \/ Encode256
    \/ Encode128
    \/ CircuitHealth
    \/ ArtifactsChange
    \/ AssessTransactions
    \/ CalculateRiskScore
    \/ Close
    \/ EnvChange

ComponentSpec == Init /\ [][ComponentNext]_vars

-----------------------------------------------------------------------------
(* Underwriting agent (src/underwriting-agent/main.py).  Amounts are in      *)
(* thousands; the 0-100 factors are whole numbers; the 0-1 risks are in      *)
(* tenths, the income risk in 200ths and the overall risk in 800ths.         *)

\* lines 262-273
calculate_credit_factor(credit_score) ==
    IF credit_score >= 750 THEN 90
    ELSE IF credit_score >= 700 THEN 75
    ELSE IF credit_score >= 650 THEN 60
    ELSE IF credit_score >= 600 THEN 45
    ELSE 25

\* lines 275-279: int(income / 100000 * 70), capped, plus int(years * 6), capped
calculate_income_factor(income, employment_years) ==
    LET income_score     == IF income > 0 THEN Min(100, (income * 7) \div 10) ELSE 20
        employment_score == Min(30, employment_years * 6)
    IN  income_score + employment_score

\* lines 281-293
calculate_debt_factor(debt, income) ==
    IF income <= 0 THEN 90
    ELSE IF 10 * debt <= 3 * income THEN 20
    ELSE IF 10 * debt <= 5 * income THEN 50
    ELSE IF 10 * debt <= 7 * income THEN 70
    ELSE 90

\* lines 295-304
calculate_employment_factor(employment_years) ==
    IF employment_years >= 5 THEN 90
    ELSE IF employment_years >= 2 THEN 70
    ELSE IF employment_years >= 1 THEN 50
    ELSE 30

\* lines 159-167
agent_risk_level(overall_score) ==
    IF overall_score >= 80 THEN "low"
    ELSE IF overall_score >= 60 THEN "medium"
    ELSE IF overall_score >= 40 THEN "high"
    ELSE "very_high"

\* lines 141-167: the factors and int() of their weighted sum
agent_score(data) ==
    LET credit_factor     == calculate_credit_factor(data.credit_score)
        income_factor     == calculate_income_factor(data.annual_income,
                                                     data.employment_years)
        debt_factor       == calculate_debt_factor(data.existing_debt,
                                                   data.annual_income)
        employment_factor == calculate_employment_factor(data.employment_years)
        overall_score     == (4 * credit_factor + 3 * income_factor
                              + 2 * debt_factor + employment_factor) \div 10
    IN  [ overall_score |-> overall_score,
          risk_level    |-> agent_risk_level(overall_score),
          factors       |-> [ credit_score       |-> credit_factor,
                              income_stability   |-> income_factor,
                              debt_ratio         |-> 100 - debt_factor,
                              employment_history |-> employment_factor ],
          debt_factor   |-> debt_factor ]

\* lines 95-100: SimpleRiskResponse declares overall_score with ge=0, le=100
SimpleRiskResponseValid(a) == a.overall_score \in 0..100

ConsentedData ==
    [ annual_income    : {0, 50, 85, 150, 1000},
      credit_score     : {300, 600, 650, 700, 750, 850},
      employment_years : {0, 1, 2, 5, 10},
      existing_debt    : {0, 20, 50, 100, 1000} ]

\* POST /score_risk of the agent, lines 118-183: a failure inside the try
\* block, the response model's validation included, leaves as a 500
AgentScoreRisk ==
    /\ req.pc = "idle"
    /\ \E data \in ConsentedData :
         LET a == agent_score(data)
         IN /\ req' = [ handler |-> "agent_score_risk", pc |-> "done",
                        input |-> data, computed |-> a ]
            /\ response' =
                  IF SimpleRiskResponseValid(a)
                  THEN [ status |-> 200, overall_score |-> a.overall_score,
                         risk_level |-> a.risk_level, factors |-> a.factors ]
                  ELSE HTTPException(500, "Risk assessment error")
    /\ UNCHANGED <<metrics, env, temp_files, call, served>>

\* lines 307-317, in tenths
calculate_credit_risk(credit_score) ==
    IF credit_score >= 750 THEN 1
    ELSE IF credit_score >= 700 THEN 3
    ELSE IF credit_score >= 650 THEN 5
    ELSE IF credit_score >= 600 THEN 7
    ELSE 9

\* lines 319-323, in 200ths
calculate_income_risk(income, employment_years) ==
    Max(0, 100 - income) + 10 * Max(0, 10 - employment_years)

\* lines 325-334, in tenths; the ratio is in hundredths
calculate_debt_risk(debt_to_income) ==
    IF debt_to_income <= 30 THEN 2
    ELSE IF debt_to_income <= 40 THEN 4
    ELSE IF debt_to_income <= 50 THEN 7
    ELSE 9

\* lines 337-342, in tenths
calculate_identity_risk(zk_proof) ==
    IF zk_proof.truthy /\ zk_proof.status = "proof_generated" THEN 1 ELSE 5

\* what a request can carry as zk_face_proof: nothing, an empty dictionary,
\* the response of main_enhanced.py's /prove_face, the responses of
\* main_day4.py's /prove_face (real and simulated), and dictionaries a client
\* made up
ZkProofs ==
    { [ origin |-> "absent",    truthy |-> FALSE, status |-> "None" ],
      [ origin |-> "empty",     truthy |-> FALSE, status |-> "None" ],
      [ origin |-> "enhanced",  truthy |-> TRUE,  status |-> "proof_generated" ],
      [ origin |-> "real",      truthy |-> TRUE,  status |-> "None" ],
      [ origin |-> "simulated", truthy |-> TRUE,  status |-> "None" ],
      [ origin |-> "forged",    truthy |-> TRUE,  status |-> "proof_generated" ],
      [ origin |-> "arbitrary", truthy |-> TRUE,  status |-> "None" ] }

\* overall_score <= t on binary floats, both in 800ths: on an exact tie the
\* float sum may lie just above the threshold (over)
FloatLeq(o, t, over) == o < t \/ (o = t /\ ~over)

\* lines 219-226
underwrite_risk_level(o, over) ==
    IF FloatLeq(o, 240, over) THEN "low"
    ELSE IF FloatLeq(o, 400, over) THEN "medium"
    ELSE IF FloatLeq(o, 560, over) THEN "high"
    ELSE "very_high"

NoAmount == [ present |-> FALSE, tenths |-> 0 ]

Amount(tenths) == [ present |-> TRUE, tenths |-> tenths ]

\* lines 344-375; income > 0 here, amounts come back in tenths of a thousand
make_underwriting_decision(applicant, o, over) ==
    IF FloatLeq(o, 240, over) /\ applicant.loan_amount <= 4 * applicant.income
    THEN [ decision |-> "approved",
           max_approved_amount |-> Amount(10 * applicant.loan_amount),
           interest_rate_adjustment |-> 0 ]
    ELSE IF FloatLeq(o, 400, over) /\ applicant.loan_amount <= 5 * applicant.income
    THEN [ decision |-> "conditionally_approved",
           max_approved_amount |->
               Amount(10 * Min(applicant.loan_amount, 4 * applicant.income)),
           interest_rate_adjustment |-> 25 ]
    ELSE IF FloatLeq(o, 560, over)
    THEN [ decision |-> "requires_manual_review",
           max_approved_amount |->
               Amount(Min(8 * applicant.loan_amount, 30 * applicant.income)),
           interest_rate_adjustment |-> 50 ]
    ELSE [ decision |-> "declined",
           max_approved_amount |-> NoAmount,
           interest_rate_adjustment |-> 0 ]

\* applicants that pass the validation of ApplicantData (lines 39-46)
Applicants ==
    [ income               : {0, 50, 85, 100, 200},
      credit_score         : {300, 600, 650, 700, 750},
      employment_years     : {0, 2, 5, 10},
      debt_to_income_ratio : {0, 30, 40, 50, 100},
      loan_amount          : {0, 100, 300, 1000} ]

\* POST /underwrite, lines 185-259: no try block, so the ZeroDivisionError of
\* loan_amount / income (line 346) leaves as the server's 500
Underwrite ==
    /\ req.pc = "idle"
    /\ \E applicant \in Applicants, zk_face_proof \in ZkProofs, over \in BOOLEAN :
         LET credit_risk   == calculate_credit_risk(applicant.credit_score)
             income_risk   == calculate_income_risk(applicant.income,
                                                    applicant.employment_years)
             debt_risk     == calculate_debt_risk(applicant.debt_to_income_ratio)
             identity_risk == calculate_identity_risk(zk_face_proof)
             overall_score == 32 * credit_risk + income_risk
                              + 20 * debt_risk + 8 * identity_risk
         IN /\ req' = [ handler |-> "underwrite", pc |-> "done",
                        input |-> [ applicant_data |-> applicant,
                                    zk_face_proof |-> zk_face_proof ] ]
            /\ response' =
                  IF applicant.income = 0
                  THEN HTTPException(500, "Internal Server Error")
                  ELSE [ status |-> 200,
                         risk_level |-> underwrite_risk_level(overall_score, over),
                         risk_scores |-> [ overall_score |-> overall_score,
                                           credit_risk   |-> credit_risk,
                                           income_risk   |-> income_risk,
                                           debt_risk     |-> debt_risk,
                                           identity_risk |-> identity_risk ],
                         outcome |-> make_underwriting_decision(applicant,
                                                                overall_score, over) ]
    /\ UNCHANGED <<metrics, env, temp_files, call, served>>

-----------------------------------------------------------------------------
(* POST /score_risk of main_day4.py *)

\* lines 593-610: a few of the profiles the random sampling can produce
SampleProfiles ==
    { [ monthly_income        |-> income,
        monthly_expenses      |-> expenses,
        average_balance       |-> income - expenses + noise,
        transaction_frequency |-> frequency,
        income_stability      |-> stability,
        expense_pattern_score |-> pattern,
        debt_to_income_ratio  |-> [ n |-> expenses, d |-> income ],
        complete              |-> TRUE ] :
      income \in {25, 50}, expenses \in {10, 20}, noise \in {-5, 15},
      frequency \in {15, 34}, stability \in {1, 31}, pattern \in {40, 80} }

\* the upi_data of a request: None, "", a text of one line, a text whose rows
\* all lack a third field that parses as a number, and texts with parsed rows
UpiData ==
    { [ kind |-> "none",            truthy |-> FALSE, lines |-> 0, rows |-> <<>> ],
      [ kind |-> "empty",           truthy |-> FALSE, lines |-> 0, rows |-> <<>> ],
      [ kind |-> "header_only",     truthy |-> TRUE,  lines |-> 1, rows |-> <<>> ],
      [ kind |-> "no_parsable_row", truthy |-> TRUE,  lines |-> 3, rows |-> <<>> ] }
    \cup
    { [ kind |-> "rows", truthy |-> TRUE, lines |-> Len(t) + 1, rows |-> t ] :
      t \in Transactions }

\* lines 519-555; synthesized tells whether _generate_sample_data made the
\* profile
process_csv_transactions(csv_data, sample) ==
    IF ~csv_data.truthy \/ csv_data.lines <= 1 \/ csv_data.rows = <<>>
    THEN [ profile |-> sample, synthesized |-> TRUE ]
    ELSE [ profile |-> _analyze_transactions(csv_data.rows), synthesized |-> FALSE ]

\* line 996
data_source(upi_data, processed) ==
    IF upi_data.truthy THEN "csv_upi_data" ELSE "sample_data"

\* lines 961-1034; fault is an exception raised inside the try block after
\* the first counter was updated
ScoreRisk ==
    /\ CanAccept
    /\ \E upi_data \in UpiData, sample \in SampleProfiles,
          short \in BOOLEAN, fault \in BOOLEAN :
         LET processed  == process_csv_transactions(upi_data, sample)
             assessment == calculate_risk_score(processed.profile, short)
         IN /\ req' = [ handler |-> "score_risk", pc |-> "done",
                        input |-> upi_data, fault |-> fault,
                        synthesized |-> processed.synthesized ]
            /\ metrics' =
                  [ metrics EXCEPT !.financial_requests = @ + 1,
                                   !.risk_assessments = IF fault THEN @ ELSE @ + 1 ]
            /\ response' =
                  IF fault
                  THEN [ status |-> 200, success |-> FALSE,
                         risk_score |-> 500, risk_category |-> "UNKNOWN",
                         data_source |-> "error" ]
                  ELSE [ status |-> 200, success |-> TRUE,
                         risk_score |-> assessment.final_score,
                         risk_category |-> assessment.risk_category,
                         data_source |-> data_source(upi_data, processed) ]
    /\ served' = served + 1
    /\ UNCHANGED <<env, temp_files, call>>

RiskNext ==
    \/ ScoreRisk
    \/ AgentScoreRisk
    \/ Underwrite
    \/ Close

RiskSpec == Init /\ [][RiskNext]_vars

-----------------------------------------------------------------------------
(* Properties *)

Active == call.pc \in {"entry", "mktemp", "check", "run", "parse", "finally", "except"}

Returned == call.pc = "returned"

ProofResultKeys ==
    { "success", "proof", "publicSignals", "embedding_hash", "nullifier",
      "protocol", "circuit", "proof_type", "circuit_health" }

IsProofResult(r) ==
    /\ ProofResultKeys \subseteq DOMAIN r
    /\ r.proof_type \in {"real", "simulated"}
    /\ r.success \in BOOLEAN

C2_RecordedOnce ==
    Returned =>
        /\ metrics.total_proofs = call.total0 + 1
        /\ \/ /\ metrics.successful_proofs = call.ok0 + 1
              /\ metrics.failed_proofs = call.failed0
           \/ /\ metrics.successful_proofs = call.ok0
              /\ metrics.failed_proofs = call.failed0 + 1

\* C3: when generate_proof returns, none of the temporary files it created
\* still exists.
C3_TempFilesRemoved ==
    Returned => temp_files = {}

\* C4: with a required circuit artifact missing (health not healthy for that
\* reason) generate_proof never starts the prover and returns a simulated proof.
C4_MissingArtifactNoProver ==
    LET h == check_circuit_health(env)
    IN  (call.pc # "none" /\ (~h.wasm_exists \/ ~h.zkey_exists)) =>
            /\ h.overall_health # "healthy"
            /\ call.prover_starts = 0
            /\ call.pc \notin {"run", "parse"}
            /\ Returned => call.result.proof_type = "simulated"

\* a call that found the zkey missing and came back with the default reason
C4_Witness ==
    /\ Returned /\ env.wasm_exists /\ ~env.zkey_exists
    /\ call.result.proof_type = "simulated"
    /\ call.result.fallback_reason = "Circuit unavailable"
    /\ call.stages = <<"NotStarted", "ArtifactCheck", "SkipToFallback", "Fallback", "Done">>

\* C5: whenever the real path is not taken or fails, the result has
\* success = true, proof_type = simulated and a non-empty fallback_reason.
C5_FallbackReasonPopulated ==
    (Returned /\ call.result.proof_type # "real") =>
        /\ call.result.success = TRUE
        /\ call.result.proof_type = "simulated"
        /\ "fallback_reason" \in DOMAIN call.result
        /\ call.result.fallback_reason # ""

StageTraces ==
    { <<"NotStarted", "ArtifactCheck", "RealAttempt", "Success", "Done">>,
      <<"NotStarted", "ArtifactCheck", "RealAttempt", "Fallback", "Done">>,
      <<"NotStarted", "ArtifactCheck", "SkipToFallback", "Fallback", "Done">> }

IsPrefix(s, t) == Len(s) <= Len(t) /\ SubSeq(t, 1, Len(s)) = s

\* at most one prover start, no retry, at most one fallback, exactly one
\* outcome, and a real proof only after exit code 0 and two parsed files
OneAttemptOneOutcome ==
    call.pc # "none" =>
        /\ call.prover_starts <= 1
        /\ call.fallbacks <= 1
        /\ Returned =>
             /\ call.result.proof_type \in {"real", "simulated"}
             /\ call.result.proof_type = "real" <=>
                    (call.fallbacks = 0 /\ call.prover_starts = 1
                     /\ call.prover_rc = 0 /\ call.parsed = 2)
             /\ call.result.proof_type = "simulated" <=> call.fallbacks = 1

Budget(priority) == IF priority = "high" THEN 60 ELSE 30

C7_State ==
    /\ call.pc = "run" => call.elapsed <= Budget(call.priority)
    /\ (Returned /\ call.exc = "TimeoutExpired") =>
          /\ call.elapsed = Budget(call.priority)
          /\ call.result.proof_type = "simulated"
          /\ call.result.fallback_reason = "Timeout"
    \* a prover that was started and never exited ends in the Timeout fallback
    /\ (Returned /\ call.prover_starts = 1 /\ call.prover_rc = -1) =>
          call.result.fallback_reason = "Timeout"

\* C7: a prover that never exits does not keep the call: the wait never
\* exceeds the priority's budget (60 for high, 30 otherwise), the attempt is
\* abandoned at the budget and the call returns the Timeout fallback.
C7_HangTerminates ==
    /\ [](C7_State)
    /\ (call.pc = "run") ~> Returned

\* a normal-priority call whose prover hung until the budget ran out
C7_Witness ==
    /\ Returned /\ call.exc = "TimeoutExpired" /\ call.priority # "high"
    /\ call.elapsed = 30 /\ call.prover_rc = -1
    /\ call.result.fallback_reason = "Timeout"

BatchInvalid(request) ==
    \/ Len(request.embeddings) # Len(request.user_ids)
    \/ Len(request.embeddings) # Len(request.wallet_addresses)
    \/ Len(request.embeddings) > 10

ProofCounters(m) == <<m.total_proofs, m.successful_proofs, m.failed_proofs>>

\* C8: a batch whose arrays differ in length or that holds more than 10
\* embeddings is rejected before any proof attempt: no generate_proof call,
\* no prover start, proof counters unchanged.
C8_BatchRejectedEarly ==
    (req.handler = "batch_prove" /\ BatchInvalid(req.input)) =>
        /\ req.pc = "done"
        /\ response.status >= 400
        /\ req.gp_calls = 0
        /\ req.prover_starts = 0
        /\ call.pc = "none"
        /\ ProofCounters(metrics) = ProofCounters(req.metrics0)

\* an 11-item batch with equal array lengths, rejected
C8_Witness ==
    /\ req.handler = "batch_prove" /\ req.pc = "done"
    /\ Len(req.input.embeddings) = 11
    /\ Len(req.input.user_ids) = 11 /\ Len(req.input.wallet_addresses) = 11
    /\ response.status >= 400 /\ req.gp_calls = 0

FallbackReasons ==
    Stderrs \cup {"Timeout", "Circuit unavailable", StrOf("OSError"),
                  StrOf("JSONDecodeError")}

\* what generate_proof(embedding, user_id, "normal") can return
ProofsFor(embedding, user_id) ==
    { RealProof(embedding, user_id, "normal", "proof_data", "public_signals") }
    \cup { _generate_enhanced_simulated_proof(hash_embedding(embedding), user_id, e) :
             e \in FallbackReasons }

\* C9: an accepted batch of n items makes n single-proof calls in input order
\* and answers n results in input order, results[i] being the proof for
\* (embeddings[i], user_ids[i]) with batch_index = i and wallet_addresses[i];
\* a simulated item neither aborts nor reorders the rest.
C9_BatchInOrder ==
    (req.handler = "batch_prove" /\ ~BatchInvalid(req.input)) =>
        LET n == Len(req.input.embeddings)
        IN  /\ Len(req.results) = req.i
            /\ req.i <= n
            /\ req.pc = "calling" => req.gp_calls = req.i + 1
            /\ \A k \in 1..Len(req.results) :
                 /\ req.results[k].batch_index = k - 1
                 /\ req.results[k].wallet_address = req.input.wallet_addresses[k]
                 /\ req.results[k].result \in
                        ProofsFor(req.input.embeddings[k], req.input.user_ids[k])
            /\ req.pc = "done" =>
                 /\ response.status = 200
                 /\ response.results = req.results
                 /\ Len(response.results) = n
                 /\ req.gp_calls = n

\* a two-item batch whose first item fell back and whose second is real
C9_Witness ==
    /\ req.handler = "batch_prove" /\ req.pc = "done"
    /\ response.status = 200 /\ Len(response.results) = 2
    /\ response.results[1].result.proof_type = "simulated"
    /\ response.results[2].result.proof_type = "real"
    /\ response.results[2].batch_index = 1
    /\ response.results[2].wallet_address = "w1"

InputError ==
    \/ req.handler = "prove_face" /\ req.input.image.data # "decodable"
    \/ req.handler = "batch_prove" /\ BatchInvalid(req.input)
    \/ req.handler = "generate_proof" /\ Len(req.input.embedding) \notin {128, 256}

\* C10: an input error (empty or undecodable image, wrong embedding length,
\* mismatched or oversized batch) reaches the caller as a 400-class rejection
\* and is not counted as a failed proof.
C10_InputErrorsAre400 ==
    (req.pc = "done" /\ InputError) =>
        /\ response.status \in 400..499
        /\ metrics.failed_proofs = req.metrics0.failed_proofs

\* the verdict of the liveness detector on the image of a prove_face request
Verdict ==
    detect_face_and_liveness(req.input.image, req.input.advanced_mode)

Rejected ==
    /\ req.handler = "prove_face"
    /\ req.input.image.data = "decodable"
    /\ ~(Verdict.face_detected /\ Verdict.liveness_detected)

\* C11: in prove_face the proof engine is reached only after a positive
\* liveness verdict: with no face, or a face that fails liveness, the request
\* ends in a 4xx rejection with recommendations, generate_proof is never
\* called for it and no proof is in the response.
C11_ProofOnlyAfterLiveness ==
    /\ Rejected =>
          /\ req.pc = "done"
          /\ req.gp_calls = 0
          /\ call = NoCall
          /\ response.status \in 400..499
          /\ response.success = FALSE
          /\ Len(response.recommendations) > 0
          /\ "proof" \notin DOMAIN response
    /\ (req.handler = "prove_face" /\ req.gp_calls > 0) =>
          /\ Verdict.face_detected
          /\ Verdict.liveness_detected

C11_Witness ==
    /\ Rejected
    /\ Verdict.face_detected
    /\ req.pc = "done"
    /\ response.error = "Liveness validation failed"
    /\ Len(response.recommendations) = 4

Detected == req.handler = "detect_face_and_liveness" /\ req.pc = "done"

\* C12: in standard mode a capture whose eye-aspect ratio is below 0.2 while
\* face size, sharpness and brightness all pass is not live, and its failed
\* checks contain the eyes-closed entry.
C12_EyesClosedRejected ==
    ( /\ Detected
      /\ ~req.input.advanced_mode
      /\ req.input.image.face
      /\ req.input.image.ear < EAR_THRESHOLD
      /\ req.input.image.face_area > FACE_SIZE_THRESHOLD
      /\ req.input.image.sharpness > SHARPNESS_MIN
      /\ req.input.image.brightness > BRIGHTNESS_LOW
      /\ req.input.image.brightness < BRIGHTNESS_HIGH )
    => /\ ~response.detection.liveness_detected
       /\ response.gate = "not_live"
       /\ "Eyes appear closed or partially closed" \in response.failed_checks

\* C13: every liveness rejection is itemized: whenever a face is detected and
\* liveness_detected is false, in standard or advanced mode and for values on
\* a threshold too, the failed checks are not empty.
C13_RejectionItemized ==
    ( /\ Detected
      /\ response.detection.face_detected
      /\ ~response.detection.liveness_detected )
    => response.failed_checks # {}

C13_Witness ==
    /\ Detected
    /\ req.input.advanced_mode
    /\ req.input.image.ear = EAR_THRESHOLD
    /\ req.input.image.sharpness = SHARPNESS_MIN
    /\ req.input.image.brightness = BRIGHTNESS_HIGH
    /\ req.input.image.face_area > FACE_SIZE_THRESHOLD
    /\ ~response.detection.liveness_detected
    /\ response.failed_checks = {"Eyes appear closed or partially closed"}

Encoded256 == req.handler = "embedding_256" /\ req.pc = "done"

\* C14: for every landmark set of 468 or 478 points the embedding has exactly
\* 256 elements, each an integer in [0,255], on the normalized path and on
\* the degenerate path alike.
C14_EmbeddingLength ==
    Encoded256 =>
        /\ Len(response.embedding) = EMBED_MAX
        /\ \A k \in 1..Len(response.embedding) : response.embedding[k] \in 0..255

Encoders == {"embedding_256", "landmarks_to_128_embedding"}

\* C15: two runs of a landmark encoder on the same landmark set give the same
\* embedding and the same embedding hash, for the 256-element encoder and for
\* landmarks_to_128_embedding followed by embedding_to_128_bytes.
C15_EncodingDeterministic ==
    ( /\ req.pc = "done"
      /\ req.handler \in Encoders
      /\ req.previous # NoPrevious
      /\ req.previous.input = req.input )
    => /\ response.embedding = req.previous.output.embedding
       /\ response.embedding_hash = req.previous.output.embedding_hash

HealthChecked == req.handler = "circuit_health" /\ req.pc = "done"

\* C16: overall_health is healthy iff wasm, zkey and prover all hold; it is
\* degraded when only some hold and unhealthy when none holds.
C16_HealthClassification ==
    (HealthChecked /\ ~req.input.raised) =>
        LET e == req.input.env
            all  == e.wasm_exists /\ e.zkey_exists /\ e.snarkjs_available
            none == ~e.wasm_exists /\ ~e.zkey_exists /\ ~e.snarkjs_available
        IN response.circuit_health.overall_health =
              IF all THEN "healthy" ELSE IF none THEN "unhealthy" ELSE "degraded"

\* C17: two consecutive circuit-health calls with no change of the artifacts
\* or the prover in between return the same overall classification, and the
\* second leaves the cached status in the metrics registry as the first did.
C17_HealthIdempotent ==
    ( /\ HealthChecked
      /\ req.previous # NoPrevious
      /\ req.previous.input = req.input )
    => /\ response.circuit_health.overall_health
            = req.previous.output.circuit_health.overall_health
       /\ metrics.circuit_health = req.previous.cached
       /\ req.cached = req.previous.cached

C17_Witness ==
    /\ HealthChecked
    /\ req.previous # NoPrevious
    /\ req.previous.input = req.input
    /\ ~req.input.raised
    /\ req.input.env.wasm_exists /\ ~req.input.env.zkey_exists
    /\ response.circuit_health.overall_health = "degraded"
    /\ metrics.circuit_health = "degraded"

Scored ==
    /\ req.pc = "done"
    /\ req.handler \in {"calculate_risk_score", "_analyze_transactions"}

\* C18: final_score is inside [300, 850] for every financial profile, the
\* adversarial ones included.
C18_ScoreBounds ==
    Scored => response.risk_assessment.final_score \in 300..850

One == [ n |-> 1, d |-> 1 ]

\* C19: with monthly_income = 0 nothing is divided by zero: the expense ratio
\* is 1.0, the expense score 0, the debt-to-income ratio of an analyzed
\* profile 1.0, and the assessment is computed, not the error default.
C19_ZeroIncome ==
    ( /\ Scored
      /\ response.financial_profile.complete
      /\ response.financial_profile.monthly_income = 0 )
    => /\ response.risk_assessment # ErrorDefault
       /\ response.risk_assessment.expense_ratio = One
       /\ response.risk_assessment.expense_score.n = 0
       /\ req.handler = "_analyze_transactions"
             => response.financial_profile.debt_to_income_ratio = One

C19_Witness ==
    /\ Scored
    /\ req.handler = "_analyze_transactions"
    /\ response.financial_profile.monthly_income = 0
    /\ response.financial_profile.monthly_expenses = 4
    /\ response.financial_profile.debt_to_income_ratio = One
    /\ response.risk_assessment.expense_ratio = One
    /\ response.risk_assessment.risk_category = "VERY_HIGH"

\* C20: every profile with income 0 and expenses 5000 is in the category
\* VERY_HIGH, whatever its frequency, stability and expense-pattern score.
C20_ZeroIncomeVeryHigh ==
    ( /\ Scored
      /\ response.financial_profile.complete
      /\ response.financial_profile.monthly_income = 0
      /\ response.financial_profile.monthly_expenses = 5 )
    => response.risk_assessment.risk_category = "VERY_HIGH"

AgentScored == req.pc = "done" /\ req.handler = "agent_score_risk"

Underwritten == req.pc = "done" /\ req.handler = "underwrite"

\* C21: an applicant with income 85000, a credit score of at least 750, at
\* least 5 years of employment and a debt ratio of at most 0.3 gets the risk
\* level low from the agent's /score_risk and from /underwrite.
C21_BestBucketsLow ==
    /\ ( /\ AgentScored
         /\ req.input.annual_income = 85
         /\ req.input.credit_score >= 750
         /\ req.input.employment_years >= 5
         /\ 10 * req.input.existing_debt <= 3 * req.input.annual_income )
       => ( response.status = 200 /\ response.risk_level = "low" )
    /\ ( /\ Underwritten
         /\ req.input.applicant_data.income = 85
         /\ req.input.applicant_data.credit_score >= 750
         /\ req.input.applicant_data.employment_years >= 5
         /\ req.input.applicant_data.debt_to_income_ratio <= 30 )
       => ( response.status = 200 /\ response.risk_level = "low" )

RiskScored == req.pc = "done" /\ req.handler = "score_risk"

\* C22: score_risk never answers with an error body: every request gets an
\* assessment, and an internal failure gets the default marked success = false.
C22_ScoreRiskNeverErrors ==
    /\ RiskScored =>
         /\ response.status = 200
         /\ response.success = ~req.fault
    /\ AgentScored =>
         /\ response.status = 200
         /\ response.risk_level \in {"low", "medium", "high", "very_high"}

\* monthly transaction counts, from none to far above the cap of 30
Frequencies == {0, 9, 15, 29, 30, 31, 60, 1000}

\* C23: the frequency score is peaked: some frequency gets a strictly lower
\* score than a smaller frequency does.
C23_FrequencyPeaked ==
    Scored =>
        \E f, g \in Frequencies :
            /\ f < g
            /\ frequency_score(g).n * frequency_score(f).d
                   < frequency_score(f).n * frequency_score(g).d

\* the origins of a proof that was really generated, fallbacks left out
ValidProofOrigins == {"enhanced", "real"}

\* C24: the identity risk is 0.1 exactly when the request carries a valid proof
\* that is no fallback; no proof, a simulated proof and an arbitrary
\* dictionary get 0.5.
C24_IdentityRiskOnlyForValidProof ==
    ( Underwritten /\ response.status = 200 ) =>
        response.risk_scores.identity_risk =
            IF req.input.zk_face_proof.origin \in ValidProofOrigins THEN 1 ELSE 5

C26_OverallScoreBounded ==
    AgentScored =>
        /\ req.computed.overall_score \in 0..100
        /\ response.status = 200
        /\ response.overall_score = req.computed.overall_score

\* how favourable a risk level of /score_risk is
Favourability(risk_level) ==
    CASE risk_level = "low"       -> 3
      [] risk_level = "medium"    -> 2
      [] risk_level = "high"      -> 1
      [] risk_level = "very_high" -> 0

ExistingDebts == { data.existing_debt : data \in ConsentedData }

\* C27: with the other inputs fixed, a higher existing_debt never raises the
\* debt factor, the overall_score or the favourability of the risk level, and
\* an applicant without income never gets a higher debt factor than one with
\* income and a debt ratio of at most 0.3.
C27_MoreDebtNeverBetter ==
    AgentScored =>
        /\ \A debt \in ExistingDebts :
             debt > req.input.existing_debt =>
                LET more == agent_score([req.input EXCEPT !.existing_debt = debt])
                IN /\ more.debt_factor <= req.computed.debt_factor
                   /\ more.overall_score <= req.computed.overall_score
                   /\ Favourability(more.risk_level)
                          <= Favourability(req.computed.risk_level)
        /\ req.input.annual_income = 0 =>
             \A data \in ConsentedData :
                ( /\ data.annual_income > 0
                  /\ 10 * data.existing_debt <= 3 * data.annual_income )
                => req.computed.debt_factor <= agent_score(data).debt_factor

\* C28: data_source is sample_data whenever the scored profile came from
\* _generate_sample_data, and csv_upi_data only when the profile was derived
\* from the transaction records of the request.
C28_DataSourceTellsProfile ==
    ( RiskScored /\ response.success ) =>
        /\ req.synthesized => response.data_source = "sample_data"
        /\ response.data_source = "csv_upi_data" => ~req.synthesized

\* C29: the nullifier of a result is the nullifierHash of the circuit input
\* derived from (embedding, user_id), for a real and for a simulated result
\* alike.
C29_NullifierOfCircuitInput ==
    Returned =>
        call.result.nullifier
            = circuit_input(call.embedding, call.user_id).nullifierHash

\* C30: /underwrite returns a decision for every validated applicant, one
\* with income 0 included; unless the decision is declined the
\* max_approved_amount is at most the requested loan_amount, and it is absent
\* exactly when the decision is declined.
C30_UnderwriteAlwaysDecides ==
    Underwritten =>
        /\ response.status = 200
        /\ response.outcome.decision \in
               { "approved", "conditionally_approved",
                 "requires_manual_review", "declined" }
        /\ response.outcome.decision # "declined" =>
               response.outcome.max_approved_amount.tenths
                   <= 10 * req.input.applicant_data.loan_amount
        /\ ~response.outcome.max_approved_amount.present
               <=> response.outcome.decision = "declined"

====
